---------------------------- MODULE Spec2Model ----------------------------
(***************************************************************************)
(* Model of blockchain_forensics/main.py: the three append-only files      *)
(* (transaction log, adjacency list, address index), block ingestion       *)
(* (ingest_blocks / process_block), index search (search_address) and the  *)
(* breadth-first trace (build_graph_from_address / trace_address).         *)
(***************************************************************************)
EXTENDS Integers, Sequences, FiniteSets, TLC

(***************************************************************************)
(* Bounds of the model.                                                    *)
(***************************************************************************)
\* Number of ingest_blocks calls in one behaviour.
MaxRuns == 2
\* Number of file appends that raise (and are logged and swallowed).
MaxFailures == 1
\* Largest depth a trace is started with.
MaxDepth == 2
\* Largest height ingest_blocks is called with (the chains end at height 1
\* and at height 2).
MaxHeight == 2

(***************************************************************************)
(* File names (main.py:21-23).                                             *)
(***************************************************************************)
TRANSACTION_FILE == "transactions.log"
ADJACENCY_FILE == "adjacency_list.csv"
ADDRESS_INDEX_FILE == "address_index.idx"

AllFiles == {TRANSACTION_FILE, ADJACENCY_FILE, ADDRESS_INDEX_FILE}

(***************************************************************************)
(* The chain held by the node behind rpc_client.  A vin entry is the value *)
(* of its 'addr' key, NoAddr when the key is absent; a vout entry carries  *)
(* scriptPubKey.addresses (possibly empty) and the value.                  *)
(***************************************************************************)
NoAddr == ""
NoHash == ""

Vout(addrs, v) == [addresses |-> addrs, value |-> v]

\* T1: coinbase -> X
T1 == [txid |-> "T1", vin |-> <<NoAddr>>, vout |-> <<Vout(<<"X">>, 5)>>]
\* T2: X -> Y, Z
T2 == [txid |-> "T2", vin |-> <<"X">>,
       vout |-> <<Vout(<<"Y">>, 2), Vout(<<"Z">>, 3)>>]
\* T3: X -> Y, X (a second X -> Y transfer, and change back to X)
T3 == [txid |-> "T3", vin |-> <<"X">>,
       vout |-> <<Vout(<<"Y">>, 1), Vout(<<"X">>, 1)>>]
\* T4: Y, Z -> an output whose script resolves to no address
T4 == [txid |-> "T4", vin |-> <<"Y", "Z">>, vout |-> <<Vout(<<>>, 4)>>]
\* T5: Y -> X (closes the cycle X -> Y -> X)
T5 == [txid |-> "T5", vin |-> <<"Y">>, vout |-> <<Vout(<<"X">>, 1)>>]
\* T6: X -> X (a second self-loop on X)
T6 == [txid |-> "T6", vin |-> <<"X">>, vout |-> <<Vout(<<"X">>, 1)>>]
\* T7: Z -> an output whose script resolves to no address
T7 == [txid |-> "T7", vin |-> <<"Z">>, vout |-> <<Vout(<<>>, 1)>>]
\* T8: X -> an output whose script resolves to no address
T8 == [txid |-> "T8", vin |-> <<"X">>, vout |-> <<Vout(<<>>, 2)>>]

Block(hash, height, txs, next) ==
    [hash |-> hash, height |-> height, time |-> 100 + height, tx |-> txs,
     nextblockhash |-> next]

\* The two-block chain of the specification's scenario.
ScenarioChain == << Block("h0", 0, <<T1>>, "h1"),
                    Block("h1", 1, <<T2>>, NoHash) >>
\* A three-block chain with a two-transaction block and transactions
\* without resolvable outputs.
MixedChain == << Block("h0", 0, <<T4, T7>>, "h1"),
                 Block("h1", 1, <<T5>>, "h2"),
                 Block("h2", 2, <<T8>>, NoHash) >>

Chains == {ScenarioChain, MixedChain}

VARIABLES
    chain,          \* the blocks the node serves, genesis first
    exists,         \* names of the files present on disk
    txFile,         \* lines of TRANSACTION_FILE
    adjFile,        \* lines of ADJACENCY_FILE
    idxFile,        \* lines of ADDRESS_INDEX_FILE
    ipc,            \* position of ingest_blocks / process_block
    current_block_hash,
    current_block_height,
    latest_block,
    txi,            \* position of `for tx in block['tx']`
    ii,             \* position of `for input_addr in inputs`
    jj,             \* position of `for output_addr, _ in outputs`
    block_file_offset,
    ingest_result,  \* how the last ingest_blocks call ended
    runs,           \* ingest_blocks calls made
    failures,       \* appends that raised
    processed,      \* transactions process_block has finished, in order
    run,            \* the current ingest_blocks call: its arguments, the
                    \* heights process_block was called for, the appends
                    \* that raised
    tpc,            \* position of build_graph_from_address
    address,        \* its arguments
    depth,
    queue,
    visited_addresses,
    graph,
    lookups,        \* (address, depth) of each search_address call of
                    \* this trace
    added,          \* (input, output, txid) passed to graph.add_edge
    trace_result    \* how the last trace ended

fileVars == <<exists, txFile, adjFile, idxFile>>
ingestVars == <<ipc, current_block_hash, current_block_height, latest_block,
                txi, ii, jj, block_file_offset, ingest_result, runs,
                failures, processed, run>>
traceVars == <<tpc, address, depth, queue, visited_addresses, graph,
               lookups, added, trace_result>>
vars == <<chain, fileVars, ingestVars, traceVars>>

(***************************************************************************)
(* rpc_client                                                              *)
(***************************************************************************)
getblockcount == chain[Len(chain)].height

HasHeight(h) == \E k \in 1..Len(chain) : chain[k].height = h

getblockhash(h) == chain[CHOOSE k \in 1..Len(chain) : chain[k].height = h].hash

getblock(hash) == chain[CHOOSE k \in 1..Len(chain) : chain[k].hash = hash]

(***************************************************************************)
(* Lines of the three files.  fmt records how a line of the transaction    *)
(* log is serialised: "header", "csv" (the f-string of process_block) or   *)
(* "json" (what search_address parses).                                    *)
(***************************************************************************)
TxHeader == [fmt |-> "header", block_hash |-> "block_hash", txid |-> "txid",
             block_height |-> 0, timestamp |-> 0,
             inputs |-> <<>>, outputs |-> <<>>]

AdjHeader == [input_address |-> "input_address",
              output_address |-> "output_address",
              txid |-> "txid", block_hash |-> "block_hash"]

\* main.py:68
Inputs(tx) ==
    [k \in 1..Len(tx.vin) |->
        IF tx.vin[k] = NoAddr THEN "coinbase" ELSE tx.vin[k]]

HasAddresses(vout) == vout.addresses # <<>>

\* main.py:69
Outputs(tx) ==
    LET kept == SelectSeq(tx.vout, HasAddresses)
    IN  [k \in 1..Len(kept) |-> <<kept[k].addresses[1], kept[k].value>>]

\* main.py:72
TxLine(block, tx) ==
    [fmt |-> "csv", block_hash |-> block.hash, txid |-> tx.txid,
     block_height |-> block.height, timestamp |-> block.time,
     inputs |-> Inputs(tx), outputs |-> Outputs(tx)]

\* main.py:79
AdjLine(input_addr, output_addr, txid, block_hash) ==
    [input_address |-> input_addr, output_address |-> output_addr,
     txid |-> txid, block_hash |-> block_hash]

\* main.py:54
IdxLine(addr, file_name, line_number) ==
    [address |-> addr, file_name |-> file_name, line_number |-> line_number]

(***************************************************************************)
(* append_to_file / index_address: the write either appends one line or    *)
(* raises; the exception is logged and swallowed, the file is unchanged.   *)
(***************************************************************************)
WriteOutcomes == IF failures < MaxFailures THEN {TRUE, FALSE} ELSE {TRUE}

\* A write that opens the file with mode 'w' where main.py:45 has 'a'.
write_to_file(file, data_line, ok) ==
    IF ok THEN <<data_line>> ELSE file

append_to_file(file, data_line, ok) ==
    IF ok THEN Append(file, data_line) ELSE file

index_address(addr, file_name, line_number, ok) ==
    IF ok THEN Append(idxFile, IdxLine(addr, file_name, line_number))
          ELSE idxFile

CountFailure(ok) == IF ok THEN failures ELSE failures + 1

\* The except branch (main.py:47-48, 55-56) as the current run sees it: the
\* block height, the transaction and the file of the append that raised.
Raised(ok, height, txid, file_name) ==
    IF ok THEN run
    ELSE [run EXCEPT !.raised = @ \cup {<<height, txid, file_name>>}]

\* main.py:74: sum(1 for _ in open(TRANSACTION_FILE)) - 1
LineCountMinusOne(file) == Len(file) - 1

(***************************************************************************)
(* The state of a process of main.py before main() runs.                   *)
(***************************************************************************)
EmptyGraph == [nodes |-> {}, edges |-> {}]

\* No ingest_blocks call is running.
NoRun == [start |-> 0, end |-> 0, blocks |-> <<>>, raised |-> {}]

InitIngest ==
    /\ ipc = "idle"
    /\ current_block_hash = NoHash
    /\ current_block_height = 0
    /\ latest_block = 0
    /\ txi = 1
    /\ ii = 1
    /\ jj = 1
    /\ block_file_offset = 0
    /\ ingest_result = "none"
    /\ runs = 0
    /\ failures = 0
    /\ processed = <<>>
    /\ run = NoRun

InitTrace ==
    /\ tpc = "idle"
    /\ address = ""
    /\ depth = 0
    /\ queue = <<>>
    /\ visited_addresses = {}
    /\ graph = EmptyGraph
    /\ lookups = <<>>
    /\ added = <<>>
    /\ trace_result = "none"

\* A new process holds no trace.
FreshMemory ==
    /\ tpc' = "idle"
    /\ address' = ""
    /\ depth' = 0
    /\ queue' = <<>>
    /\ visited_addresses' = {}
    /\ graph' = EmptyGraph
    /\ lookups' = <<>>
    /\ added' = <<>>
    /\ trace_result' = "none"

(***************************************************************************)
(* initialize_files, the first step of main(): a new process, whose memory *)
(* holds no trace; the files keep what earlier processes wrote.            *)
(***************************************************************************)
InitializeFiles ==
    /\ ipc = "idle"
    /\ tpc = "idle"
    /\ exists' = AllFiles
    /\ txFile' = IF TRANSACTION_FILE \in exists THEN txFile ELSE <<TxHeader>>
    /\ adjFile' = IF ADJACENCY_FILE \in exists THEN adjFile ELSE <<AdjHeader>>
    /\ idxFile' = IF ADDRESS_INDEX_FILE \in exists THEN idxFile ELSE <<>>
    /\ FreshMemory
    /\ UNCHANGED <<chain, ingestVars>>

(***************************************************************************)
(* ingest_blocks and process_block                                         *)
(***************************************************************************)
NoEnd == -1

\* main.py:90-96, 103-104
IngestBlocks(start_block, end_block) ==
    /\ ipc = "idle"
    /\ tpc = "idle"
    /\ exists = AllFiles
    /\ trace_result = "none"
    /\ runs < MaxRuns
    /\ runs' = runs + 1
    /\ IF HasHeight(start_block)
       THEN /\ current_block_hash' = getblockhash(start_block)
            /\ current_block_height' = start_block
            /\ latest_block' =
                   IF end_block = NoEnd THEN getblockcount ELSE end_block
            /\ ipc' = "loop"
            /\ ingest_result' = "running"
            /\ run' = [start |-> start_block, end |-> latest_block',
                       blocks |-> <<>>, raised |-> {}]
       ELSE \* getblockhash raises for a height the node does not have
            /\ ingest_result' = "failed"
            /\ UNCHANGED <<ipc, current_block_hash, current_block_height,
                           latest_block, run>>
    /\ UNCHANGED <<chain, fileVars, txi, ii, jj, block_file_offset,
                   failures, processed, traceVars>>

\* ingest_blocks returns (main.py:98 false, or the handler at 103-104): its
\* locals and those of process_block are gone.
IngestReturns(result) ==
    /\ ipc' = "idle"
    /\ ingest_result' = result
    /\ current_block_hash' = NoHash
    /\ current_block_height' = 0
    /\ latest_block' = 0
    /\ txi' = 1
    /\ ii' = 1
    /\ jj' = 1
    /\ block_file_offset' = 0
    /\ run' = NoRun

CurBlock == getblock(current_block_hash)
CurTx == CurBlock.tx[txi]

\* main.py:98-100, 61-65
LoopTest ==
    /\ ipc = "loop"
    /\ IF current_block_height <= latest_block
       THEN /\ txi' = 1
            /\ ipc' = IF Len(CurBlock.tx) >= 1 THEN "tx" ELSE "next"
            /\ run' = [run EXCEPT
                          !.blocks = Append(@, current_block_height)]
            /\ UNCHANGED <<ingest_result, current_block_hash,
                           current_block_height, latest_block, ii, jj,
                           block_file_offset>>
       ELSE IngestReturns("ok")
    /\ UNCHANGED <<chain, fileVars, runs, failures, processed, traceVars>>

\* What process_block has recorded of a transaction once it moves past it.
Done(tx, off) ==
    [txid |-> tx.txid, block_hash |-> CurBlock.hash, inputs |-> Inputs(tx),
     outputs |-> Outputs(tx), offset |-> off]

\* Leaving the body of `for tx in block['tx']` (main.py:65, 85).
TxFinished(off) ==
    /\ processed' = Append(processed, Done(CurTx, off))
    /\ txi' = txi + 1
    /\ ipc' = IF txi < Len(CurBlock.tx) THEN "tx" ELSE "next"

\* main.py:66-74
AppendTx ==
    /\ ipc = "tx"
    /\ \E ok \in WriteOutcomes :
         /\ txFile' = append_to_file(txFile, TxLine(CurBlock, CurTx), ok)
         /\ failures' = CountFailure(ok)
         /\ run' = Raised(ok, current_block_height, CurTx.txid,
                          TRANSACTION_FILE)
    /\ block_file_offset' = LineCountMinusOne(txFile')
    /\ IF Len(Inputs(CurTx)) >= 1 /\ Len(Outputs(CurTx)) >= 1
       THEN /\ ii' = 1
            /\ jj' = 1
            /\ ipc' = "edge"
            /\ UNCHANGED <<txi, processed>>
       ELSE /\ TxFinished(block_file_offset')
            /\ UNCHANGED <<ii, jj>>
    /\ UNCHANGED <<chain, exists, adjFile, idxFile, current_block_hash,
                   current_block_height, latest_block, ingest_result, runs,
                   traceVars>>

input_addr == Inputs(CurTx)[ii]
output_addr == Outputs(CurTx)[jj][1]

\* main.py:79-80
AppendEdge ==
    /\ ipc = "edge"
    /\ \E ok \in WriteOutcomes :
         /\ adjFile' = append_to_file(adjFile,
                AdjLine(input_addr, output_addr, CurTx.txid, CurBlock.hash),
                ok)
         /\ failures' = CountFailure(ok)
         /\ run' = Raised(ok, current_block_height, CurTx.txid,
                          ADJACENCY_FILE)
    /\ ipc' = "idx_in"
    /\ UNCHANGED <<chain, exists, txFile, idxFile, current_block_hash,
                   current_block_height, latest_block, txi, ii, jj,
                   block_file_offset, ingest_result, runs, processed,
                   traceVars>>

\* main.py:83
IndexInput ==
    /\ ipc = "idx_in"
    /\ \E ok \in WriteOutcomes :
         /\ idxFile' = index_address(input_addr, TRANSACTION_FILE,
                                     block_file_offset, ok)
         /\ failures' = CountFailure(ok)
         /\ run' = Raised(ok, current_block_height, CurTx.txid,
                          ADDRESS_INDEX_FILE)
    /\ ipc' = "idx_out"
    /\ UNCHANGED <<chain, exists, txFile, adjFile, current_block_hash,
                   current_block_height, latest_block, txi, ii, jj,
                   block_file_offset, ingest_result, runs, processed,
                   traceVars>>

\* main.py:84, then the two `for` headers (main.py:77-78)
IndexOutput ==
    /\ ipc = "idx_out"
    /\ \E ok \in WriteOutcomes :
         /\ idxFile' = index_address(output_addr, TRANSACTION_FILE,
                                     block_file_offset, ok)
         /\ failures' = CountFailure(ok)
         /\ run' = Raised(ok, current_block_height, CurTx.txid,
                          ADDRESS_INDEX_FILE)
    /\ IF jj < Len(Outputs(CurTx))
       THEN /\ jj' = jj + 1
            /\ ipc' = "edge"
            /\ UNCHANGED <<ii, txi, processed>>
       ELSE IF ii < Len(Inputs(CurTx))
       THEN /\ ii' = ii + 1
            /\ jj' = 1
            /\ ipc' = "edge"
            /\ UNCHANGED <<txi, processed>>
       ELSE /\ TxFinished(block_file_offset)
            /\ UNCHANGED <<ii, jj>>
    /\ UNCHANGED <<chain, exists, txFile, adjFile, current_block_hash,
                   current_block_height, latest_block, block_file_offset,
                   ingest_result, runs, traceVars>>

\* A loop that counts the height up without following 'nextblockhash'
\* (main.py:101 dropped).
StayOnBlock ==
    /\ ipc = "next"
    /\ current_block_height' = current_block_height + 1
    /\ ipc' = "loop"
    /\ UNCHANGED <<ingest_result, latest_block, txi, ii, jj,
                   block_file_offset, run, current_block_hash>>
    /\ UNCHANGED <<chain, fileVars, runs, failures, processed, traceVars>>

\* main.py:101-104: a block without 'nextblockhash' raises KeyError, which
\* ends the run in the handler of ingest_blocks.
NextBlock ==
    /\ ipc = "next"
    /\ IF CurBlock.nextblockhash = NoHash
       THEN IngestReturns("failed")
       ELSE /\ current_block_hash' = CurBlock.nextblockhash
            /\ current_block_height' = current_block_height + 1
            /\ ipc' = "loop"
            /\ UNCHANGED <<ingest_result, latest_block, txi, ii, jj,
                           block_file_offset, run>>
    /\ UNCHANGED <<chain, fileVars, runs, failures, processed, traceVars>>

(***************************************************************************)
(* search_address                                                          *)
(***************************************************************************)
\* main.py:117: json.loads accepts a line only when it is JSON text; the
\* header and the comma-separated lines of process_block raise.
JsonParses(file_line) == file_line.fmt = "json"

\* The dict json.loads returns for a JSON line.
JsonLoads(file_line) ==
    [txid |-> file_line.txid, inputs |-> file_line.inputs,
     outputs |-> file_line.outputs]

FileLines(file_name) ==
    IF file_name = TRANSACTION_FILE THEN txFile
    ELSE IF file_name = ADJACENCY_FILE THEN adjFile
    ELSE idxFile

\* main.py:111-117 from index line k on; an exception (main.py:119) ends
\* the scan and returns what has been collected so far.
RECURSIVE SearchFrom(_, _, _)
SearchFrom(addr, k, results) ==
    IF k > Len(idxFile) THEN results
    ELSE LET e == idxFile[k]
             f == FileLines(e.file_name)
             n == e.line_number
         IN  IF e.address # addr THEN SearchFrom(addr, k + 1, results)
             ELSE IF e.file_name \notin exists THEN results
             ELSE IF n < 0 \/ n >= Len(f) THEN SearchFrom(addr, k + 1, results)
             ELSE IF JsonParses(f[n + 1])
                  THEN SearchFrom(addr, k + 1,
                                  Append(results, JsonLoads(f[n + 1])))
                  ELSE results

\* main.py:107-121
search_address(addr) ==
    IF ADDRESS_INDEX_FILE \notin exists THEN <<>>
    ELSE SearchFrom(addr, 1, <<>>)

(***************************************************************************)
(* build_graph_from_address                                                *)
(***************************************************************************)
\* networkx DiGraph.add_edge (main.py:125, 144): both ends become nodes and
\* the pair (u, v) holds one edge, whose txid attribute is overwritten.
add_edge(g, u, v, txid) ==
    [g EXCEPT !.nodes = @ \cup {u, v},
              !.edges = {e \in @ : ~(e[1] = u /\ e[2] = v)}
                            \cup {<<u, v, txid>>}]

\* main.py:140-143: the (input, output, txid) triples of one transaction in
\* the order of the two loops.
TxEdges(tx) ==
    LET ins == tx.inputs
        outs == tx.outputs
    IN  [k \in 1..(Len(ins) * Len(outs)) |->
            << ins[((k - 1) \div Len(outs)) + 1],
               outs[((k - 1) % Len(outs)) + 1][1],
               tx.txid >>]

\* main.py:138
RECURSIVE AllEdges(_)
AllEdges(transactions) ==
    IF transactions = <<>> THEN <<>>
    ELSE TxEdges(Head(transactions)) \o AllEdges(Tail(transactions))

RECURSIVE AddEdges(_, _)
AddEdges(g, es) ==
    IF es = <<>> THEN g
    ELSE AddEdges(add_edge(g, es[1][1], es[1][2], es[1][3]), Tail(es))

\* An enqueue without the test `if current_depth < depth` of main.py:145.
EnqueuedAlways(es, current_depth) ==
    [k \in 1..Len(es) |-> <<es[k][2], current_depth + 1>>]

\* main.py:145-146
Enqueued(es, current_depth) ==
    IF current_depth < depth
    THEN [k \in 1..Len(es) |-> <<es[k][2], current_depth + 1>>]
    ELSE <<>>

\* The test of main.py:131 without `current_address in visited_addresses`.
DiscardByDepth(current_address, current_depth) ==
    current_depth > depth

\* main.py:131
Discard(current_address, current_depth) ==
    current_address \in visited_addresses \/ current_depth > depth

\* main() initialises the files and ingests before it starts the interface;
\* the files do not change while a process serves traces and every call
\* starts from fresh locals, so the model follows one call per process
\* (trace_result = "none").
\* main.py:125-127
StartTrace(a, d) ==
    /\ tpc' = "run"
    /\ address' = a
    /\ depth' = d
    /\ queue' = << <<a, 0>> >>
    /\ visited_addresses' = {}
    /\ graph' = EmptyGraph
    /\ lookups' = <<>>
    /\ added' = <<>>
    /\ trace_result' = "running"

BuildGraphFromAddress(a, d) ==
    /\ tpc = "idle"
    /\ ipc = "idle"
    /\ exists = AllFiles
    /\ trace_result = "none"
    /\ StartTrace(a, d)
    /\ UNCHANGED <<chain, fileVars, ingestVars>>

\* main.py:186-196: the depth entry either parses as an integer or raises
\* ValueError; the trace runs only when address and depth are both truthy.
TraceAddress(a, d, parses) ==
    /\ tpc = "idle"
    /\ ipc = "idle"
    /\ exists = AllFiles
    /\ trace_result = "none"
    /\ IF ~parses
       THEN /\ trace_result' = "value_error"
            /\ UNCHANGED <<tpc, address, depth, queue, visited_addresses,
                           graph, lookups, added>>
       ELSE IF a # "" /\ d # 0
       THEN StartTrace(a, d)
       ELSE /\ trace_result' = "skipped"
            /\ UNCHANGED <<tpc, address, depth, queue, visited_addresses,
                           graph, lookups, added>>
    /\ UNCHANGED <<chain, fileVars, ingestVars>>

\* main.py:129-148: one iteration of `while queue`.
TraceStep ==
    /\ tpc = "run"
    /\ queue # <<>>
    /\ LET current_address == Head(queue)[1]
           current_depth == Head(queue)[2]
       IN  IF Discard(current_address, current_depth)
           THEN /\ queue' = Tail(queue)
                /\ UNCHANGED <<visited_addresses, graph, lookups, added>>
           ELSE \E es \in {AllEdges(search_address(current_address))} :
                    /\ visited_addresses' =
                           visited_addresses \cup {current_address}
                    /\ lookups' = Append(lookups,
                                          <<current_address, current_depth>>)
                    /\ graph' = AddEdges(graph, es)
                    /\ added' = added \o es
                    /\ queue' = Tail(queue) \o Enqueued(es, current_depth)
    /\ UNCHANGED <<chain, fileVars, ingestVars, tpc, address, depth,
                   trace_result>>

\* main.py:150-151
TraceReturn ==
    /\ tpc = "run"
    /\ queue = <<>>
    /\ tpc' = "idle"
    /\ trace_result' = "graph"
    /\ UNCHANGED <<chain, fileVars, ingestVars, address, depth, queue,
                   visited_addresses, graph, lookups, added>>


\* The program starts with no file on disk.
Init ==
    /\ chain \in Chains
    /\ exists = {}
    /\ txFile = <<>>
    /\ adjFile = <<>>
    /\ idxFile = <<>>
    /\ InitIngest
    /\ InitTrace

Heights == 0..MaxHeight
\* Q never occurs on the chain; "" is the empty address entry.
AddressInputs == {"X", "Q", ""}
DepthInputs == (-1)..MaxDepth

Next ==
    \/ InitializeFiles
    \/ \E s \in Heights, e \in Heights \cup {NoEnd} : IngestBlocks(s, e)
    \/ LoopTest
    \/ AppendTx
    \/ AppendEdge
    \/ IndexInput
    \/ IndexOutput
    \/ NextBlock
    \/ \E a \in AddressInputs, d \in DepthInputs : BuildGraphFromAddress(a, d)
    \/ \E a \in AddressInputs, d \in DepthInputs, parses \in BOOLEAN :
          TraceAddress(a, d, parses)
    \/ TraceStep
    \/ TraceReturn

Spec == Init /\ [][Next]_vars

(***************************************************************************)
(* build_graph_from_address as a function of the files it reads.  The      *)
(* store is drawn from bounded sets: the transactions of StoredTxs, one    *)
(* per block, laid out as process_block lays them out (record at line k,   *)
(* two index lines per (input, output) pair), with the records serialised  *)
(* either as process_block writes them ("csv"), or as search_address reads *)
(* them ("json"), or the first as process_block writes it and the others   *)
(* as search_address reads them ("mixed").                                 *)
(***************************************************************************)
StoredTxs == { <<T1, T2>>, <<T2, T3, T5>>, <<T1, T3, T4>>, <<T3, T6>> }
StoredFmts == {"csv", "json", "mixed"}
SeedInputs == {"X", "Y", "coinbase", "Q"}

StoreBlock(k) == Block(<<"h0", "h1", "h2">>[k], k - 1, <<>>, NoHash)

\* The serialisation of the k-th stored record
LineFmt(fmt, k) == IF fmt = "mixed" THEN (IF k = 1 THEN "csv" ELSE "json")
                   ELSE fmt

\* main.py:72-73 for the k-th stored transaction
StoreTxFile(txs, fmt) ==
    <<TxHeader>> \o
    [k \in 1..Len(txs) |->
        [TxLine(StoreBlock(k), txs[k]) EXCEPT !.fmt = LineFmt(fmt, k)]]

\* main.py:77-84: the index lines of one transaction
IndexLines(tx, off) ==
    LET ins == Inputs(tx)
        outs == Outputs(tx)
    IN  [m \in 1..(2 * Len(ins) * Len(outs)) |->
            LET p == (m + 1) \div 2
            IN  IF m % 2 = 1
                THEN IdxLine(ins[((p - 1) \div Len(outs)) + 1],
                             TRANSACTION_FILE, off)
                ELSE IdxLine(outs[((p - 1) % Len(outs)) + 1][1],
                             TRANSACTION_FILE, off)]

RECURSIVE StoreIdxFile(_, _)
StoreIdxFile(txs, k) ==
    IF k > Len(txs) THEN <<>>
    ELSE IndexLines(txs[k], k) \o StoreIdxFile(txs, k + 1)

TraceInit ==
    /\ chain = ScenarioChain
    /\ exists = AllFiles
    /\ \E txs \in StoredTxs, fmt \in StoredFmts :
         /\ txFile = StoreTxFile(txs, fmt)
         /\ idxFile = StoreIdxFile(txs, 1)
    /\ adjFile = <<AdjHeader>>
    /\ InitIngest
    /\ InitTrace

TraceNext ==
    \/ \E a \in SeedInputs, d \in DepthInputs : BuildGraphFromAddress(a, d)
    \/ TraceStep
    \/ TraceReturn

TraceSpec == TraceInit /\ [][TraceNext]_vars

\* build_graph_from_address is a sequential loop on one thread (main.py:
\* 129-151): an iteration that can run does run, and so does the return
\* once the queue is empty.
TraceFairSpec ==
    TraceInit /\ [][TraceNext]_vars /\ WF_vars(TraceStep) /\ WF_vars(TraceReturn)

(***************************************************************************)
(* Properties                                                              *)
(***************************************************************************)
Range(f) == {f[k] : k \in DOMAIN f}

\* The line of the transaction log at 0-based offset n is a transaction
\* record (not the header, and not past the end of the file).
RecordAt(n) == n >= 0 /\ n < Len(txFile) /\ txFile[n + 1].fmt # "header"

OutputAddresses(outputs) == {outputs[k][1] : k \in DOMAIN outputs}

\* C1: in every state of ingestion, intermediate ones included, every entry
\* of the address index refers to a line offset at which a transaction
\* record already exists in the transaction log.
C1_IndexedRecordExists ==
    \A k \in 1..Len(idxFile) : RecordAt(idxFile[k].line_number)

\* C2: index consistency, also when an append fails: for every index entry
\* (A, L) the line at L is a transaction record that has A among its input
\* or output addresses.
C2_IndexConsistency ==
    \A k \in 1..Len(idxFile) :
        LET n == idxFile[k].line_number
        IN  /\ RecordAt(n)
            /\ idxFile[k].address \in
                   Range(txFile[n + 1].inputs)
                       \cup OutputAddresses(txFile[n + 1].outputs)

\* C3: idempotent ingestion: ingesting a height range again adds no record;
\* no transaction identifier occurs in more than one record of the log
\* (stated for the runs in which every append succeeds).
C3_NoDuplicateTransaction ==
    failures = 0 =>
        \A m, n \in 1..Len(txFile) :
            (m # n /\ txFile[m].fmt # "header" /\ txFile[n].fmt # "header")
                => txFile[m].txid # txFile[n].txid

\* The store after the scenario's two blocks were ingested once, every
\* append succeeding.
ScenarioStore ==
    /\ chain = ScenarioChain
    /\ txFile = << TxHeader, TxLine(ScenarioChain[1], T1),
                   TxLine(ScenarioChain[2], T2) >>
    /\ idxFile = IndexLines(T1, 1) \o IndexLines(T2, 2)

\* C4: every edge of the returned graph has an expanded address as its
\* source, and in the two-block scenario trace(X, 1) returns exactly the
\* nodes {X, Y, Z} and the edges {(X -> Y, T2), (X -> Z, T2)}.
C4_TraceEdgesFromExpanded ==
    trace_result = "graph" =>
        /\ \A e \in graph.edges : e[1] \in visited_addresses
        /\ (ScenarioStore /\ address = "X" /\ depth = 1) =>
               /\ graph.nodes = {"X", "Y", "Z"}
               /\ graph.edges = { <<"X", "Y", "T2">>, <<"X", "Z", "T2">> }

\* The nodes reachable from the set S by at most d edges of g.
RECURSIVE ReachWithin(_, _, _)
ReachWithin(g, S, d) ==
    IF d <= 0 THEN S
    ELSE ReachWithin(g, S \cup {e[2] : e \in {x \in g.edges : x[1] \in S}},
                     d - 1)

\* C5: monotone depth: for any store, seed and maxDepth d >= 0, every node
\* of the returned graph is reachable from the seed by a path of at most d
\* edges of that graph.
C5_MonotoneDepth ==
    (trace_result = "graph" /\ depth >= 0) =>
        graph.nodes \subseteq ReachWithin(graph, {address}, depth)

\* C6: the result is a multigraph: every edge added for a visited
\* transaction is in the returned graph with that transaction's label, also
\* when another transaction has the same (input, output) pair.
C6_Multigraph ==
    trace_result = "graph" =>
        \A k \in 1..Len(added) : added[k] \in graph.edges

\* C7: a trace with a negative maxDepth or an empty address ends in an
\* InvalidArgument error, returns no graph and reads neither index nor
\* store.
C7_InvalidArgumentRejected ==
    (tpc = "run" \/ trace_result = "graph") /\ (depth < 0 \/ address = "")
        => /\ trace_result # "graph"
           /\ lookups = <<>>

HasIndexEntry(a) == \E k \in 1..Len(idxFile) : idxFile[k].address = a

\* C8: for a seed without index entries and d >= 0, trace returns the graph
\* whose only node is the seed and which has no edge (stated for the runs
\* in which every append succeeded).
C8_IsolatedSeed ==
    (trace_result = "graph" /\ depth >= 0 /\ ~HasIndexEntry(address)
        /\ failures = 0) =>
        /\ graph.nodes = {address}
        /\ graph.edges = {}

\* C9: once a transaction with inputs I and outputs O is ingested, the edge
\* log holds an edge record (i, o, txid, block hash) for every pair of
\* I x O, and no edge record of that transaction for a pair outside I x O.
C9_EdgeCrossProduct ==
    \A k \in 1..Len(processed) :
        LET p == processed[k]
            pairs == {<<p.inputs[i], p.outputs[j][1]>> :
                        i \in DOMAIN p.inputs, j \in DOMAIN p.outputs}
        IN  /\ \A pr \in pairs :
                  AdjLine(pr[1], pr[2], p.txid, p.block_hash) \in Range(adjFile)
            /\ \A m \in 2..Len(adjFile) :
                  adjFile[m].txid = p.txid =>
                      <<adjFile[m].input_address,
                        adjFile[m].output_address>> \in pairs

\* C10: once a transaction is ingested, the index holds exactly one entry
\* (address, location of its record) for every distinct address among its
\* inputs and outputs, also when its input or output list is empty (stated
\* for the runs in which every append succeeds).
C10_OneIndexEntryPerAddress ==
    failures = 0 =>
        \A k \in 1..Len(processed) :
            LET p == processed[k]
            IN  \A a \in Range(p.inputs) \cup OutputAddresses(p.outputs) :
                    Cardinality({m \in 1..Len(idxFile) :
                                    /\ idxFile[m].address = a
                                    /\ idxFile[m].line_number = p.offset}) = 1

\* The transaction of the chain with the given txid, as the node serves it.
ChainTx(txid) ==
    CHOOSE t \in UNION {Range(chain[b].tx) : b \in DOMAIN chain} :
        t.txid = txid

\* C11: an output whose script resolves to no address is ingested under the
\* sentinel address "unknown": once its transaction is ingested, "unknown"
\* is in the record's output list, the edge log holds an edge record
\* (i, "unknown") for every input i, and the index holds an entry for
\* "unknown" at the record's location (stated for the runs in which every
\* append succeeds).
C11_UnknownSentinel ==
    failures = 0 =>
        \A k \in 1..Len(processed) :
            LET p == processed[k]
                tx == ChainTx(p.txid)
            IN  (\E v \in DOMAIN tx.vout : ~HasAddresses(tx.vout[v])) =>
                    /\ "unknown" \in OutputAddresses(p.outputs)
                    /\ \A i \in DOMAIN p.inputs :
                          AdjLine(p.inputs[i], "unknown", p.txid,
                                  p.block_hash) \in Range(adjFile)
                    /\ \E m \in 1..Len(idxFile) :
                          /\ idxFile[m].address = "unknown"
                          /\ idxFile[m].line_number = p.offset

\* C12: when an append to the transaction log, the edge log or the index
\* raises while block N is ingested, the run writes nothing for a block of
\* height greater than N, and it writes no index entry for a transaction
\* whose record append raised.
C12_WriteFailureStopsIngestion ==
    [][ /\ (\E r \in run.raised : r[1] < current_block_height) =>
               UNCHANGED <<txFile, adjFile, idxFile>>
        /\ ( /\ ipc \in {"idx_in", "idx_out"}
             /\ <<current_block_height, CurTx.txid, TRANSACTION_FILE>>
                    \in run.raised ) =>
               idxFile' = idxFile ]_vars

\* C13: a run of ingest_blocks ends in failure exactly when a block it
\* fetched at a height below the end height has no successor link; a run
\* that has processed every block up to the end height ends without
\* failure, also when the block at the end height has no successor (the
\* chain tip) (stated for the runs in which every append succeeds).
C13_DiscontinuityOnlyBelowEnd ==
    [][ (failures = 0 /\ ipc # "idle" /\ ipc' = "idle") =>
            (ingest_result' = "failed" <=>
                (/\ CurBlock.nextblockhash = NoHash
                 /\ current_block_height < latest_block)) ]_vars

\* C14: a location that cannot be parsed is skipped and the trace goes on:
\* the returned graph has an edge for every (input, output) pair of every
\* record that parses and that the index locates for an expanded address.
C14_UnreadableLocationSkipped ==
    trace_result = "graph" =>
        \A l \in 1..Len(lookups), m \in 1..Len(idxFile) :
            LET n == idxFile[m].line_number
            IN  ( /\ idxFile[m].address = lookups[l][1]
                  /\ RecordAt(n)
                  /\ JsonParses(txFile[n + 1]) ) =>
                    \A e \in Range(TxEdges(JsonLoads(txFile[n + 1]))) :
                        \E g \in graph.edges : g[1] = e[1] /\ g[2] = e[2]

\* C15: every transaction record ingestion has appended, read back at its
\* location the way search_address reads a located line, parses and equals
\* the appended record field for field (stated for the runs in which every
\* append succeeds).
C15_RecordRoundTrip ==
    failures = 0 =>
        \A k \in 1..Len(processed) :
            LET p == processed[k]
                file_line == txFile[p.offset + 1]
            IN  /\ JsonParses(file_line)
                /\ JsonLoads(file_line) =
                       [txid |-> p.txid, inputs |-> p.inputs,
                        outputs |-> p.outputs]

IsPrefix(s, t) == Len(s) <= Len(t) /\ \A k \in 1..Len(s) : s[k] = t[k]

\* C16: the three logs are append-only: over every step of every sequence
\* of initialize_files, ingest and trace operations, the contents of the
\* transaction log, the edge log and the index after the step extend the
\* contents before it as a prefix; nothing is rewritten, truncated,
\* reordered or removed.
C16_AppendOnlyLogs ==
    [][ /\ IsPrefix(txFile, txFile')
        /\ IsPrefix(adjFile, adjFile')
        /\ IsPrefix(idxFile, idxFile') ]_vars

\* Two ingestion runs have appended to all three logs and a trace has read
\* them.
C16_Witness ==
    /\ runs >= 2
    /\ trace_result = "graph"
    /\ Len(txFile) >= 3
    /\ Len(adjFile) >= 3
    /\ Len(idxFile) >= 3

\* C17: self-loops are kept: when a visited transaction has an address A
\* among both its inputs and its outputs, the returned graph has an edge
\* A -> A labelled with that transaction's txid.
C17_SelfLoopKept ==
    trace_result = "graph" =>
        \A k \in 1..Len(added) :
            added[k][1] = added[k][2] =>
                \E g \in graph.edges :
                    /\ g[1] = added[k][1]
                    /\ g[2] = added[k][1]
                    /\ g[3] = added[k][3]

\* process_block is at work on a block.
InBlock == ipc \in {"tx", "edge", "idx_in", "idx_out", "next"}

\* C18: a run of ingest_blocks(start, end) calls process_block for the
\* heights start, start + 1, ... in strictly increasing order, each once
\* and none above end; the block it processes at a height is the one the
\* successor links lead to; every write is made for the block most recently
\* begun, so the writes of block N precede those of block N + 1; and a run
\* that ends without failure has processed exactly the heights start..end.
C18_SequentialIngestion ==
    /\ [] ( /\ \A k \in 1..Len(run.blocks) :
                  /\ run.blocks[k] = run.start + k - 1
                  /\ run.blocks[k] <= run.end
            /\ InBlock =>
                  /\ run.blocks # <<>>
                  /\ run.blocks[Len(run.blocks)] = current_block_height
                  /\ CurBlock.height = current_block_height )
    /\ [][ /\ ( /\ ipc # "idle"
                /\ <<txFile, adjFile, idxFile>>' # <<txFile, adjFile, idxFile>> )
               => /\ InBlock
                  /\ txFile' # txFile =>
                        txFile'[Len(txFile')].block_height =
                            current_block_height
                  /\ adjFile' # adjFile =>
                        adjFile'[Len(adjFile')].block_hash = CurBlock.hash
                  /\ (idxFile' # idxFile /\ run.raised = {}) =>
                        txFile[idxFile'[Len(idxFile')].line_number + 1]
                            .block_height = current_block_height
           /\ (ipc # "idle" /\ ipc' = "idle" /\ ingest_result' = "ok") =>
                  run.blocks = [k \in 1..(run.end - run.start + 1) |->
                                    run.start + k - 1] ]_vars

\* One run over two blocks of the three-block chain has ended without
\* failure: every append succeeded and the loop ended on its condition.
C18_Witness ==
    /\ ingest_result = "ok"
    /\ runs = 1
    /\ failures = 0
    /\ \E j, k \in 1..Len(processed) :
          processed[j].block_hash # processed[k].block_hash

C20_ExpandOnceAtMinimalDepth ==
    /\ [] ( /\ \A i, j \in 1..Len(lookups) :
                  i # j => lookups[i][1] # lookups[j][1]
            /\ \A l \in 1..Len(lookups), k \in 1..Len(queue) :
                  queue[k][1] = lookups[l][1] =>
                      queue[k][2] >= lookups[l][2] )
    /\ [][ (tpc = "run" /\ queue # <<>> /\ queue' # <<>>) =>
               Head(queue)[2] <= Head(queue')[2] ]_vars

\* An address that has been expanded is in the frontier again, at a greater
\* depth than the one it was expanded at.
C20_Witness ==
    /\ Len(lookups) >= 2
    /\ \E l \in 1..Len(lookups), k \in 1..Len(queue) :
          /\ queue[k][1] = lookups[l][1]
          /\ queue[k][2] > lookups[l][2]

=============================================================================
